---- MODULE Spec2Model ----
(***************************************************************************)
(* The three browser front ends of the repository as one state machine:    *)
(*   WeatherApp              src/unnamed/part_001  (map + 7-day forecast)  *)
(*   WeatherOracle           src/script.js:1-767   (date + location)       *)
(*   EnvironmentalDashboard  src/script.js:793-1051 (date only)            *)
(* A browser tab holds one page, so Init picks the page (app) and only     *)
(* that page's handlers are enabled.  One action is one run of a handler   *)
(* of the event loop: from the event (or the settled promise) that starts  *)
(* it up to its next await.                                                *)
(*                                                                         *)
(* Representation.                                                         *)
(*  - A JavaScript value that may be null/NaN/empty is a sequence of       *)
(*    length 0 or 1: None = << >>, Some(x) = << x >>.                      *)
(*  - Coordinates are integers in units of 1e-6 degree (the resolution of  *)
(*    toFixed(6)); so 40.7128 is 40712800 and 90 degrees is 90000000.      *)
(*  - WeatherApp time is counted in ticks of 1/TicksPerDay of a UTC day;   *)
(*    a date picker value d is UTC midnight of day d.                      *)
(*  - Temperatures are in tenths of a degree.                              *)
(***************************************************************************)
EXTENDS Integers, Sequences, FiniteSets, TLC

VARIABLES
    app,              \* which page the tab holds
    lastCall,         \* what the event loop ran last: "load", "predict",
                      \* "retry", an attempt that "failed"/"succeeded", a
                      \* map click or marker drag ("located"), "other"
    now,              \* WeatherApp: the clock, in ticks
    map,              \* this.map: None (Leaflet missing) or Some(view centre)
    marker,           \* this.marker: None or Some(position)
    currentCoords,    \* WeatherApp.currentCoords
    latInput,         \* #lat / #latitudeInput text
    lngInput,         \* #lng / #longitudeInput text
    coordDisplay,     \* #mapLat, #mapLng / #mapCoordinates text
    datePicker,       \* WeatherApp #datePicker value
    predictBtn,       \* #predictBtn: disabled, text, spinner
    waFetch,          \* the request predictWeather is awaiting, if any
    weatherDisplay,   \* what updateWeatherDisplay wrote
    theme,            \* body[data-theme]
    apiError,         \* #apiError: hidden, text
    coordError,       \* #coordError: hidden, text
    geocodes,         \* the requests of geocodeLocation calls in flight
    useLocation,      \* #useLocation and its getCurrentPosition call
    citySelect,       \* #country value, #city, and the city file's fetch
    dateInput,        \* dashboards: #dateInput value
    selectedLocation, \* WeatherOracle.selectedLocation
    isLoading,        \* WeatherOracle.isLoading
    attempts,         \* dashboards: predictEnvironment calls in flight
    loadingVisible,   \* #loadingState without class hidden
    errorState,       \* #errorState: visible, message
    resultsVisible,   \* #resultsSection without class hidden
    currentData,      \* dashboards: this.currentData
    rendered,         \* dashboards: what displayResults wrote
    searchInput,      \* dashboards: #searchInput value
    activeFilter,     \* dashboards: data-category of the active .filter-btn
    searchTimer,      \* WeatherOracle: the search debounce timer is pending
    swState,          \* service worker: its life-cycle state
    caches,           \* service worker: the entries of CacheStorage
    swEvents,         \* service worker: fetch events it is answering
    swLast            \* service worker: how the last fetch event ended

\* The location widgets (both map pages).
locVars == << map, marker, latInput, lngInput, coordDisplay >>
\* WeatherApp's prediction pipeline.
forecastVars == << datePicker, waFetch, weatherDisplay, theme, apiError >>
\* WeatherApp's place lookup.
placeVars == << coordError, geocodes, useLocation, citySelect >>
\* The dashboards.
dashVars == << dateInput, selectedLocation, isLoading, attempts,
               loadingVisible, errorState, resultsVisible, currentData,
               rendered >>
\* The dashboards' table filters.
filterVars == << searchInput, activeFilter, searchTimer >>
\* The service worker.
workerVars == << swState, caches, swEvents, swLast >>
\* Everything the pages hold.
pageVars == << app, lastCall, now, currentCoords, predictBtn, locVars,
              forecastVars, placeVars, dashVars, filterVars >>
vars == << pageVars, workerVars >>

None == << >>
Some(x) == << x >>

----------------------------------------------------------------------------
\* Bounds of the model.

\* Ticks the clock may advance after the page has loaded.
MaxElapsed == 1
\* geocodeLocation calls in flight at once.
MaxGeocodes == 1
\* EnvironmentalDashboard.predictEnvironment calls in flight at once.
MaxInFlight == 2
\* Auto-hide timers of one error element pending at once.
MaxTimers == 2

\* Entries of a response's confidence list.
MaxConfidence == 6

\* Ticks per UTC day: the clock resolves half days.
TicksPerDay == 2

----------------------------------------------------------------------------
\* Program constants.

\* isValidCoordinate's limits, in 1e-6 degree.
MaxLatitude == 90000000
MaxLongitude == 180000000
\* predictWeather's horizon in days.
MaxDaysAhead == 7
\* displayConfidenceIntervals' slice(0, 5).
TopCount == 5
\* initializeMap's default centre (New York).
DefaultLat == 40712800
DefaultLng == -74006000

\* Text the user types into a coordinate field: nothing a number can be
\* read from, the default latitude again, 95 degrees (out of range), 0.
EmptyText == [kind |-> "empty", value |-> 0]
NumberText(n) == [kind |-> "number", value |-> n]
TypedLat == { EmptyText, NumberText(DefaultLat), NumberText(95000000) }
TypedLng == { EmptyText, NumberText(0) }
\* Places the map, the marker or the Geolocation API report (Sydney).
MapPoints == { [lat |-> -33868800, lng |-> 151209300] }
\* Places the geocoding service answers with (Paris).
GeocodeHits == { [lat |-> 48856600, lng |-> 2352200] }
\* Search box queries: empty, a coordinate pair in range, one out of range
\* (latitude 95), and a place name.
SearchQueries ==
    { [kind |-> "empty", lat |-> 0, lng |-> 0, text |-> ""],
      [kind |-> "coords", lat |-> MaxLatitude, lng |-> 0, text |-> "90, 0"],
      [kind |-> "coords", lat |-> 95000000, lng |-> 0, text |-> "95, 0"],
      [kind |-> "name", lat |-> 0, lng |-> 0, text |-> "Paris"] }
\* The day the page is loaded on, and the dates the user picks: none, the
\* day before, that day, and 7 and 8 days after it.
LoadDay == 1
PickedDates == { None, Some(LoadDay - 1), Some(LoadDay),
                 Some(LoadDay + MaxDaysAhead), Some(LoadDay + MaxDaysAhead + 1) }

----------------------------------------------------------------------------
\* Hosts.

ModelServer == "localhost:5000"
PageOrigin == "page-origin"
GeocodingHost == "geocoding-api.open-meteo.com"

----------------------------------------------------------------------------
\* WeatherApp: pure functions.

\* parseFloat of a coordinate field: NaN (None) for empty text.
parseFloat(text) == IF text.kind = "number" THEN Some(text.value) ELSE None

isNaN(x) == x = None

\* Number.prototype.toFixed(6), as text: exact on the 1e-6 degree grid.
toFixed6(x) == NumberText(x)

\* isValidCoordinate without the range test.
isAnyCoordinate(lat, lng) == lat = lat /\ lng = lng

isValidCoordinate(lat, lng) ==
    /\ lat >= -MaxLatitude
    /\ lat <= MaxLatitude
    /\ lng >= -MaxLongitude
    /\ lng <= MaxLongitude

\* Math.floor(a / b) for b > 0: what MathCeilDiv would be with the wrong
\* rounding.
MathFloorDiv(a, b) == a \div b

\* Math.ceil(a / b) for b > 0.
MathCeilDiv(a, b) == -((-a) \div b)

\* Math.round of a value given in tenths: half rounds towards +infinity.
MathRound(tenths) == (tenths + 5) \div 10

\* new Date(datePicker.value): UTC midnight of the day, or Invalid Date.
NewDate(value) == IF value = None THEN None ELSE Some(value[1] * TicksPerDay)

\* Math.ceil((selectedDate - today) / (1000 * 60 * 60 * 24)); NaN is None.
daysFromNowOf(selectedDate, today) ==
    IF selectedDate = None
    THEN None
    ELSE Some(MathCeilDiv(selectedDate[1] - today, TicksPerDay))

\* The date formatted in a local time one tick behind UTC.
toLocalString16(t) ==
    [date |-> (t - 1) \div TicksPerDay,
     minutes |-> (((t - 1) % TicksPerDay) * 1440) \div TicksPerDay]

\* Date.prototype.toISOString().slice(0, 16): YYYY-MM-DDTHH:MM.
toISOString16(t) ==
    [date |-> t \div TicksPerDay,
     minutes |-> ((t % TicksPerDay) * 1440) \div TicksPerDay]

\* getWeatherCondition: the model's primary condition as display text.
getWeatherCondition(primary) ==
    CASE primary = "Sun" -> "Sunny"
      [] primary = "Rain" -> "Rainy"
      [] primary = "Snow" -> "Snowy"
      [] primary = "Freezing" -> "Freezing"
      [] primary = "Hot" -> "Hot"
      [] primary = "Warm" -> "Warm"
      [] primary = "Cool" -> "Cool"
      [] primary = "Mild" -> "Partly Cloudy"
      [] OTHER -> "Partly Cloudy"

\* convertModelDataToWeather: temp, feelslike (whole degrees), conditions.
convertModelDataToWeather(modelData) ==
    [temp |-> MathRound(modelData.temperature[1].air_temperature),
     feelslike |-> MathRound(modelData.temperature[1].feels_like),
     conditions |-> getWeatherCondition(modelData.primary)]

\* updateWeatherDisplay: the texts written to the weather card (data.temp
\* and data.feelslike are whole degrees already).
WeatherCard(data) ==
    [currentTemp |-> data.temp,
     currentFeelsLike |-> data.feelslike,
     currentCondition |-> data.conditions,
     shadeTemp |-> data.feelslike - 2,
     tonightLow |-> data.temp - (IF data.temp > 0 THEN 8 ELSE 5),
     tomorrowHigh |-> data.temp + (IF data.temp > 0 THEN 3 ELSE 2)]

\* updateWeatherTheme: by substring of the lower-cased condition.
ThemeOf(data) ==
    CASE data.conditions = "Rainy" -> "rainy"
      [] data.conditions = "Snowy" -> "snowy"
      [] OTHER -> "sunny"

----------------------------------------------------------------------------
\* The model server's answers to WeatherApp's POST /predict.

\* data of a success body (21.5 and -4.5 degrees).
ModelData ==
    { [temperature |-> Some([air_temperature |-> 215, feels_like |-> 198]),
       primary |-> "Rain"],
      [temperature |-> Some([air_temperature |-> -45, feels_like |-> -81]),
       primary |-> "Sun"] }

\* A response: HTTP status, whether the body parses as JSON, and the
\* body's success, data and error members (None when absent).
Body(parses, success, data, error) ==
    [parses |-> parses, success |-> success, data |-> data, error |-> error]
Response(status, body) ==
    [ok |-> (status >= 200 /\ status <= 299), status |-> status, body |-> body]

ModelResponses ==
    { Response(200, Body(TRUE, TRUE, Some(d), None)) : d \in ModelData }
    \cup
    { Response(200, Body(TRUE, FALSE, None, Some("Model not loaded"))),
      Response(200, Body(TRUE, TRUE, None, None)),
      Response(503, Body(TRUE, FALSE, None, Some("Model not loaded"))),
      Response(400, Body(FALSE, FALSE, None, None)) }

\* The outcome of a try block: a value, or the message of the Error thrown.
Returned(v) == [threw |-> FALSE, message |-> "", value |-> Some(v)]
Threw(m) == [threw |-> TRUE, message |-> m, value |-> None]

\* `Model API error: ${response.status}`
StatusMessage(status) ==
    CASE status = 400 -> "Model API error: 400"
      [] status = 503 -> "Model API error: 503"
      [] OTHER -> "Model API error"

\* fetchWeatherData with a fallback: a canned forecast wherever the real
\* one throws.
fetchWeatherDataWithMock(response) ==
    IF /\ response.ok
       /\ response.body.parses
       /\ response.body.success
       /\ response.body.data # None
    THEN Returned(convertModelDataToWeather(response.body.data[1]))
    ELSE Returned([temp |-> 20, feelslike |-> 18, conditions |-> "Sunny"])

\* fetchWeatherData that reports a status that is not OK by its code alone,
\* without reading the body's error member.
fetchWeatherDataStatusOnly(response) ==
    IF ~response.ok
    THEN Threw(StatusMessage(response.status))
    ELSE IF ~response.body.parses
    THEN Threw("Unexpected token in JSON")
    ELSE IF response.body.success /\ response.body.data # None
    THEN Returned(convertModelDataToWeather(response.body.data[1]))
    ELSE IF response.body.error # None
    THEN Threw(response.body.error[1])
    ELSE Threw("No weather data available from model")

\* fetchWeatherData from the response on: what it returns or throws.
fetchWeatherDataFrom(response) ==
    IF ~response.ok
    THEN \* response.json().catch(() => ({}))
         IF response.body.parses /\ response.body.error # None
         THEN Threw(response.body.error[1])
         ELSE Threw(StatusMessage(response.status))
    ELSE IF ~response.body.parses
    THEN Threw("Unexpected token in JSON")
    ELSE IF response.body.success /\ response.body.data # None
    THEN IF response.body.data[1].temperature = None
         THEN Threw("Cannot read properties of undefined")
         ELSE Returned(convertModelDataToWeather(response.body.data[1]))
    ELSE IF response.body.error # None
    THEN Threw(response.body.error[1])
    ELSE Threw("No weather data available from model")

----------------------------------------------------------------------------
\* WeatherApp: handlers.

IsWeatherApp == app = "WeatherApp"

Point(lat, lng) == [lat |-> lat, lng |-> lng]

\* The request of fetch('http://localhost:5000/predict', {method: 'POST', ...}):
\* body {date, latitude, longitude}.
PredictRequest(selectedDate, coords) ==
    [host |-> ModelServer, method |-> "POST", path |-> "/predict",
     date |-> toISOString16(selectedDate),
     latitude |-> coords.lat, longitude |-> coords.lng]

\* The request of a fetch(url): a GET without a body.
GetRequest(host, path, query) ==
    [host |-> host, method |-> "GET", path |-> path, query |-> query]

\* updateCoordinates(lat, lng), with the setView and addMarker calls that
\* go with it wherever a location is adopted (view: the caller calls
\* map.setView).
AdoptLocation(lat, lng, view) ==
    /\ map' = IF view THEN Some(Point(lat, lng)) ELSE map
    /\ marker' = Some(Point(lat, lng))
    /\ currentCoords' = Some(Point(lat, lng))
    /\ latInput' = toFixed6(lat)
    /\ lngInput' = toFixed6(lng)
    /\ coordDisplay' = << toFixed6(lat), toFixed6(lng) >>
    /\ coordError' = [coordError EXCEPT !.hidden = TRUE]

\* showCoordinateError(message).  It also starts a 5 s timer that hides the
\* element (see CoordTimerFires); timers counts the element's timers that
\* have not fired yet.
showCoordinateError(message) ==
    /\ coordError.timers < MaxTimers
    /\ coordError' = [hidden |-> FALSE, text |-> message,
                      timers |-> coordError.timers + 1]

\* showApiError(message).  It also starts a 5 s timer that hides the
\* element; see ApiTimerFires.
showApiError(message) ==
    /\ apiError.timers < MaxTimers
    /\ apiError' = [hidden |-> FALSE, text |-> message,
                    timers |-> apiError.timers + 1]

\* The text predictWeather's catch block shows for an Error with message m.
FailureText(m) ==
    << "Failed to get weather prediction: ", m,
       ". Please check if the model server is running." >>

SelectLocationText ==
    << "Please select a location first by clicking on the map or entering coordinates." >>

\* A finally block that resets the text and the spinner and forgets to
\* enable the button.
KeepButtonDisabled ==
    predictBtn' = [predictBtn EXCEPT !.text = "Predict the Weather",
                                     !.spinner = "none"]

\* predictWeather's finally block.
HideLoadingState ==
    predictBtn' = [disabled |-> FALSE, text |-> "Predict the Weather",
                   spinner |-> "none"]

\* updateMapFromInputs, run by the input event of #lat or #lng once the
\* field holds the typed text.  With Leaflet missing this.map is null and
\* map.setView throws before anything is adopted.
updateMapFromInputs(latText, lngText) ==
    LET lat == parseFloat(latText)
        lng == parseFloat(lngText)
    IN IF ~isNaN(lat) /\ ~isNaN(lng) /\ isValidCoordinate(lat[1], lng[1])
          /\ map # None
       THEN AdoptLocation(lat[1], lng[1], TRUE)
       ELSE /\ latInput' = latText
            /\ lngInput' = lngText
            /\ UNCHANGED << map, marker, currentCoords, coordDisplay,
                            coordError >>

TypeLatitude(text) ==
    /\ IsWeatherApp
    /\ text # latInput
    /\ updateMapFromInputs(text, lngInput)
    /\ lastCall' = "other"
    /\ UNCHANGED << filterVars, workerVars, app, now, predictBtn, forecastVars, geocodes, useLocation,
                    citySelect, dashVars >>

TypeLongitude(text) ==
    /\ IsWeatherApp
    /\ text # lngInput
    /\ updateMapFromInputs(latInput, text)
    /\ lastCall' = "other"
    /\ UNCHANGED << filterVars, workerVars, app, now, predictBtn, forecastVars, geocodes, useLocation,
                    citySelect, dashVars >>

\* The map's click handler: updateCoordinates, then addMarker.
MapClick(p) ==
    /\ IsWeatherApp
    /\ map # None
    /\ AdoptLocation(p.lat, p.lng, FALSE)
    /\ lastCall' = "located"
    /\ UNCHANGED << filterVars, workerVars, app, now, predictBtn, forecastVars, geocodes, useLocation,
                    citySelect, dashVars >>

\* The marker's dragend handler: the marker is where the user dropped it.
MarkerDragEnd(p) ==
    /\ IsWeatherApp
    /\ marker # None
    /\ marker # Some(p)
    /\ AdoptLocation(p.lat, p.lng, FALSE)
    /\ lastCall' = "located"
    /\ UNCHANGED << filterVars, workerVars, app, now, predictBtn, forecastVars, geocodes, useLocation,
                    citySelect, dashVars >>

\* geocodeLocation(query) up to its first await: the fetch is issued.
StartGeocode(query) ==
    /\ Len(geocodes) < MaxGeocodes
    /\ geocodes' = Append(geocodes, GetRequest(GeocodingHost, "/v1/search", query))

\* handleSearch, run by the search form's submit event.
Search(q) ==
    /\ IsWeatherApp
    /\ lastCall' = "other"
    /\ IF q.kind = "empty"
       THEN UNCHANGED << geocodes, locVars, currentCoords, coordError >>
       ELSE IF q.kind = "coords" /\ isValidCoordinate(q.lat, q.lng)
       THEN \* map.setView throws on a null map: nothing is adopted
            /\ IF map # None
               THEN AdoptLocation(q.lat, q.lng, TRUE)
               ELSE UNCHANGED << locVars, currentCoords, coordError >>
            /\ UNCHANGED geocodes
       ELSE /\ StartGeocode(<< q.text >>)
            /\ UNCHANGED << locVars, currentCoords, coordError >>
    /\ UNCHANGED << filterVars, workerVars, app, now, predictBtn, forecastVars, useLocation,
                    citySelect, dashVars >>

\* geocodeLocation from its response on (the awaits of fetch and of
\* response.json() taken together).  outcome: "hit" (first result p),
\* "none" (no results), "failed" (fetch rejected or status not OK).
GeocodeSettles(i, outcome, p) ==
    /\ IsWeatherApp
    /\ i \in 1..Len(geocodes)
    /\ geocodes' = SubSeq(geocodes, 1, i - 1)
                    \o SubSeq(geocodes, i + 1, Len(geocodes))
    /\ lastCall' = "other"
    /\ IF outcome = "hit" /\ map # None
       THEN AdoptLocation(p.lat, p.lng, TRUE)
       ELSE /\ showCoordinateError(
                 IF outcome = "none"
                 THEN "Location not found. Please try a different search term."
                 ELSE "Failed to search for location. Please check your internet connection.")
            /\ UNCHANGED << locVars, currentCoords >>
    /\ UNCHANGED << filterVars, workerVars, app, now, predictBtn, forecastVars, useLocation,
                    citySelect, dashVars >>

\* An auto-hide timer of showCoordinateError fires: the element is hidden,
\* whichever message it shows.  All timers run 5 s, so the one that fires is
\* the one started first.
CoordTimerFires ==
    /\ IsWeatherApp
    /\ coordError.timers > 0
    /\ coordError' = [coordError EXCEPT !.hidden = TRUE, !.timers = @ - 1]
    /\ lastCall' = "other"
    /\ UNCHANGED << filterVars, workerVars, app, now, currentCoords, predictBtn, locVars,
                    forecastVars, geocodes, useLocation, citySelect, dashVars >>

\* An auto-hide timer of showApiError fires (as CoordTimerFires).
ApiTimerFires ==
    /\ IsWeatherApp
    /\ apiError.timers > 0
    /\ apiError' = [apiError EXCEPT !.hidden = TRUE, !.timers = @ - 1]
    /\ lastCall' = "other"
    /\ UNCHANGED << filterVars, workerVars, app, now, currentCoords, predictBtn, locVars, datePicker,
                    waFetch, weatherDisplay, theme, placeVars, dashVars >>

\* getCurrentLocation, run by a click on #useLocation (navigator.geolocation
\* present): the button is disabled until a callback enables it again.
UseLocationClick ==
    /\ IsWeatherApp
    /\ useLocation = "idle"
    /\ useLocation' = "pending"
    /\ lastCall' = "other"
    /\ UNCHANGED << filterVars, workerVars, app, now, currentCoords, predictBtn, locVars,
                    forecastVars, coordError, geocodes, citySelect, dashVars >>

\* getCurrentPosition's success callback.  On a null map setView throws and
\* the button is left disabled.
PositionFound(p) ==
    /\ IsWeatherApp
    /\ useLocation = "pending"
    /\ lastCall' = "other"
    /\ IF map # None
       THEN /\ AdoptLocation(p.lat, p.lng, TRUE)
            /\ useLocation' = "idle"
       ELSE /\ useLocation' = "stuck"
            /\ UNCHANGED << locVars, currentCoords, coordError >>
    /\ UNCHANGED << filterVars, workerVars, app, now, predictBtn, forecastVars, geocodes, citySelect,
                    dashVars >>

\* getCurrentPosition's error callback.
PositionError ==
    /\ IsWeatherApp
    /\ useLocation = "pending"
    /\ showCoordinateError("Unable to retrieve your location.")
    /\ useLocation' = "idle"
    /\ lastCall' = "other"
    /\ UNCHANGED << filterVars, workerVars, app, now, currentCoords, predictBtn, locVars,
                    forecastVars, geocodes, citySelect, dashVars >>

\* getLocalCities('France').
LocalCities == { "Paris", "Marseille", "Lyon", "Toulouse", "Nice" }
\* The names in data/cities/France.json, when the server has the file.
ServerCities == { "Paris", "Lyon" }
\* The city the user picks from the list.
PickedCities == { "Paris" }

\* handleCountryChange('France') up to its await: the city file is fetched.
CountryChange ==
    /\ IsWeatherApp
    /\ "France" \in citySelect.countries
    /\ citySelect.country = ""
    /\ citySelect' = [citySelect EXCEPT
                        !.country = "France",
                        !.fetch = Some(GetRequest(PageOrigin,
                                                  "data/cities/France.json",
                                                  << >>))]
    /\ lastCall' = "other"
    /\ UNCHANGED << filterVars, workerVars, app, now, currentCoords, predictBtn, locVars,
                    forecastVars, coordError, geocodes, useLocation, dashVars >>

\* handleCountryChange from the response on: populateCitySelect with the
\* file's cities, or with the local ones when the fetch failed.
CitiesSettle(ok) ==
    /\ IsWeatherApp
    /\ citySelect.fetch # None
    /\ citySelect' = [citySelect EXCEPT
                        !.fetch = None,
                        !.disabled = FALSE,
                        !.city = "",
                        !.options = IF ok THEN ServerCities ELSE LocalCities]
    /\ lastCall' = "other"
    /\ UNCHANGED << filterVars, workerVars, app, now, currentCoords, predictBtn, locVars,
                    forecastVars, coordError, geocodes, useLocation, dashVars >>

\* handleCityChange(city): geocode `${city}, ${country}`.
CityChange(city) ==
    /\ IsWeatherApp
    /\ ~citySelect.disabled
    /\ city \in citySelect.options
    /\ city # citySelect.city
    /\ citySelect' = [citySelect EXCEPT !.city = city]
    /\ StartGeocode(<< city, ", ", citySelect.country >>)
    /\ lastCall' = "other"
    /\ UNCHANGED << filterVars, workerVars, app, now, currentCoords, predictBtn, locVars,
                    forecastVars, coordError, useLocation, dashVars >>

\* The user picks a date, or clears the field.
DateChange(value) ==
    /\ IsWeatherApp
    /\ value # datePicker
    /\ datePicker' = value
    /\ lastCall' = "other"
    /\ UNCHANGED << filterVars, workerVars, app, now, currentCoords, predictBtn, locVars, waFetch,
                    weatherDisplay, theme, apiError, placeVars, dashVars >>

\* Time passes.
Tick ==
    /\ IsWeatherApp
    /\ now < LoadDay * TicksPerDay + MaxElapsed
    /\ now' = now + 1
    /\ UNCHANGED << filterVars, workerVars, app, lastCall, currentCoords, predictBtn, locVars,
                    forecastVars, placeVars, dashVars >>

\* predictWeather's date validation: the message of the Error it throws.
\* A comparison with NaN is false.
DateRangeError(daysFromNow) ==
    IF daysFromNow # None /\ daysFromNow[1] < 0
    THEN Some("Cannot predict weather for past dates")
    ELSE IF daysFromNow # None /\ daysFromNow[1] > MaxDaysAhead
    THEN Some("Cannot predict weather more than 7 days ahead")
    ELSE None

\* predictWeather's catch and finally blocks for an Error with message m.
PredictionFailed(m) ==
    /\ showApiError(FailureText(m))
    /\ HideLoadingState
    /\ waFetch' = None

\* predictWeather, run by a click on #predictBtn, up to its first await.
\* fetchWeatherData builds the body before it calls fetch, so an Invalid
\* Date throws (toISOString) before any request is issued.
PredictClick ==
    /\ IsWeatherApp
    /\ ~predictBtn.disabled
    /\ lastCall' = "predict"
    /\ IF currentCoords = None
       THEN /\ showApiError(SelectLocationText)
            /\ UNCHANGED << predictBtn, waFetch >>
       ELSE LET selectedDate == NewDate(datePicker)
                daysFromNow == daysFromNowOf(selectedDate, now)
                rangeError == DateRangeError(daysFromNow)
            IN IF rangeError # None
               THEN PredictionFailed(rangeError[1])
               ELSE IF selectedDate = None
               THEN PredictionFailed("Invalid time value")
               ELSE /\ predictBtn' = [disabled |-> TRUE,
                                      text |-> "Predicting...",
                                      spinner |-> "inline-block"]
                    /\ waFetch' = Some(PredictRequest(selectedDate[1],
                                                      currentCoords[1]))
                    /\ UNCHANGED apiError
    /\ UNCHANGED << filterVars, workerVars, app, now, currentCoords, locVars, datePicker,
                    weatherDisplay, theme, placeVars, dashVars >>

\* fetch() rejects: network error.
FetchRejects ==
    /\ IsWeatherApp
    /\ waFetch # None
    /\ PredictionFailed("Failed to fetch")
    /\ lastCall' = "failed"
    /\ UNCHANGED << filterVars, workerVars, app, now, currentCoords, locVars, datePicker,
                    weatherDisplay, theme, placeVars, dashVars >>

\* fetch() resolves and the body is read: the rest of fetchWeatherData and
\* of predictWeather.  (Nothing is written between the two awaits, so they
\* are one step.)
ResponseArrives(response) ==
    /\ IsWeatherApp
    /\ waFetch # None
    /\ lastCall' = IF fetchWeatherDataFrom(response).threw
                   THEN "failed" ELSE "succeeded"
    /\ LET result == fetchWeatherDataFrom(response)
       IN IF result.threw
          THEN /\ PredictionFailed(result.message)
               /\ UNCHANGED << weatherDisplay, theme >>
          ELSE /\ weatherDisplay' = Some(WeatherCard(result.value[1]))
               /\ theme' = ThemeOf(result.value[1])
               /\ HideLoadingState
               /\ waFetch' = None
               /\ UNCHANGED apiError
    /\ UNCHANGED << filterVars, workerVars, app, now, currentCoords, locVars, datePicker, placeVars,
                    dashVars >>

----------------------------------------------------------------------------
\* The dashboards (WeatherOracle, EnvironmentalDashboard): inputs.

IsOracle == app = "WeatherOracle"
IsDashboard == app = "EnvironmentalDashboard"

\* The default of setDefaultDate.
DefaultDate == [year |-> 2023, month |-> 2, day |-> 15]
\* #dateInput values the user enters: none, the default, a day of 2024.
DashDates == { None, Some(DefaultDate),
               Some([year |-> 2024, month |-> 1, day |-> 1]) }

\* Bodies the backend answers /api/predict with: summary, variables and
\* confidence (absent: None).  A confidence is in units of 1e-4.
DashData ==
    { [summary |-> [temperature |-> 52, rain_probability |-> 30],
       variables |-> << >>,
       confidence |-> None],
      [summary |-> [temperature |-> -13, rain_probability |-> 5],
       variables |-> << >>,
       confidence |-> Some(<< [variable |-> "air_temperature",
                               confidence |-> 9000] >>)] }

\* Number.prototype.toFixed(4), as text: rounded to 1e-4 degree.
toFixed4(x) ==
    IF x >= 0
    THEN NumberText(((x + 50) \div 100) * 100)
    ELSE NumberText(-(((-x + 50) \div 100) * 100))

SelectDateMessage == "Please select a date"
SelectLocationMessage == "Please select a location using one of the methods above"
FailedMessage == "Failed to get predictions. Please make sure the API server is running."

\* (confidence * 100).toFixed(1) + '%': the percentage in tenths of a
\* percent, rounded to the nearest.
toFixed1Percent(confidence) == [tenths |-> (confidence + 5) \div 10]

\* Array.prototype.sort((a, b) => b.confidence - a.confidence): a stable
\* sort, highest confidence first.  InsertByConfidence puts item behind
\* every element of sorted that does not come after it.
RECURSIVE InsertByConfidence(_, _)
InsertByConfidence(item, sorted) ==
    IF sorted = << >>
    THEN << item >>
    ELSE IF item.confidence - sorted[1].confidence > 0
    THEN << item >> \o sorted
    ELSE << sorted[1] >> \o InsertByConfidence(item, Tail(sorted))

\* A sort that puts the lowest confidence first.
RECURSIVE SortAscending(_)
SortAscending(list) ==
    IF list = << >>
    THEN << >>
    ELSE LET rest == SortAscending(Tail(list))
             low == { i \in 1..Len(rest) :
                        rest[i].confidence < list[1].confidence }
         IN SubSeq(rest, 1, Cardinality(low)) \o << list[1] >>
            \o SubSeq(rest, Cardinality(low) + 1, Len(rest))

RECURSIVE SortByConfidence(_)
SortByConfidence(list) ==
    IF list = << >>
    THEN << >>
    ELSE InsertByConfidence(list[Len(list)],
                            SortByConfidence(SubSeq(list, 1, Len(list) - 1)))

\* Array.prototype.slice(0, n).
SliceFromStart(list, n) == SubSeq(list, 1, IF Len(list) < n THEN Len(list) ELSE n)

\* displayConfidenceIntervals(confidence): the notice, or one item per entry
\* of the five most confident.
displayConfidenceIntervals(confidence) ==
    IF confidence = None \/ confidence = Some(<< >>)
    THEN [notice |-> TRUE, items |-> << >>]
    ELSE LET topConfidence == SliceFromStart(SortByConfidence(confidence[1]), TopCount)
         IN [notice |-> FALSE,
             items |-> [i \in 1..Len(topConfidence) |->
                          [variable |-> topConfidence[i].variable,
                           width |-> topConfidence[i].confidence,
                           text |-> toFixed1Percent(topConfidence[i].confidence)]]]

\* The response object once displayResults has run: sort() has reordered
\* its confidence array in place.
AfterDisplay(data) ==
    IF data.confidence = None \/ data.confidence = Some(<< >>)
    THEN data
    ELSE [data EXCEPT !.confidence = Some(SortByConfidence(data.confidence[1]))]

\* Text whose letters matter (variable names, search terms) is a sequence
\* of one-character strings.
UpperCaseLetters ==
    << "A", "B", "C", "D", "E", "F", "G", "H", "I", "J", "K", "L",
       "M", "N", "O", "P", "Q", "R", "S", "T", "U", "V", "W", "X",
       "Y", "Z" >>
LowerCaseLetters ==
    << "a", "b", "c", "d", "e", "f", "g", "h", "i", "j", "k", "l",
       "m", "n", "o", "p", "q", "r", "s", "t", "u", "v", "w", "x",
       "y", "z" >>

\* String.prototype.toLowerCase().
toLowerCase(text) ==
    [k \in 1..Len(text) |->
        IF \E j \in 1..Len(UpperCaseLetters) : UpperCaseLetters[j] = text[k]
        THEN LowerCaseLetters[CHOOSE j \in 1..Len(UpperCaseLetters) :
                                  UpperCaseLetters[j] = text[k]]
        ELSE text[k]]

\* String.prototype.includes(part): part occurs in text as a substring.
includes(text, part) ==
    \E k \in 0..(Len(text) - Len(part)) :
        SubSeq(text, k + 1, k + Len(part)) = part

\* The keywords of getVariableCategory.
KwTemperature ==
    << "t", "e", "m", "p", "e", "r", "a", "t", "u", "r", "e" >>
KwMoisture ==
    << "m", "o", "i", "s", "t", "u", "r", "e" >>
KwHumidity ==
    << "h", "u", "m", "i", "d", "i", "t", "y" >>
KwRadiation ==
    << "r", "a", "d", "i", "a", "t", "i", "o", "n" >>
KwFlux ==
    << "f", "l", "u", "x" >>
KwPrecipitation ==
    << "p", "r", "e", "c", "i", "p", "i", "t", "a", "t", "i", "o",
       "n" >>
KwRain ==
    << "r", "a", "i", "n" >>
KwSnow ==
    << "s", "n", "o", "w" >>

\* getVariableCategory with the checks in the opposite order.
getVariableCategoryLastMatch(name) ==
    LET lowerName == toLowerCase(name) IN
    IF \/ includes(lowerName, KwPrecipitation)
       \/ includes(lowerName, KwRain)
       \/ includes(lowerName, KwSnow) THEN "precipitation"
    ELSE IF \/ includes(lowerName, KwRadiation)
            \/ includes(lowerName, KwFlux) THEN "radiation"
    ELSE IF \/ includes(lowerName, KwMoisture)
            \/ includes(lowerName, KwHumidity) THEN "moisture"
    ELSE IF includes(lowerName, KwTemperature) THEN "temperature"
    ELSE "other"

\* getVariableCategory(name).
getVariableCategory(name) ==
    LET lowerName == toLowerCase(name) IN
    IF includes(lowerName, KwTemperature) THEN "temperature"
    ELSE IF \/ includes(lowerName, KwMoisture)
            \/ includes(lowerName, KwHumidity) THEN "moisture"
    ELSE IF \/ includes(lowerName, KwRadiation)
            \/ includes(lowerName, KwFlux) THEN "radiation"
    ELSE IF \/ includes(lowerName, KwPrecipitation)
            \/ includes(lowerName, KwRain)
            \/ includes(lowerName, KwSnow) THEN "precipitation"
    ELSE "other"

\* Number.prototype.toFixed(3), as text: a value in units of 1e-4 rounded
\* to thousandths.
toFixed3(x) ==
    IF x >= 0 THEN [thousandths |-> (x + 5) \div 10]
    ELSE [thousandths |-> 0 - ((5 - x) \div 10)]

\* The header row of the variables table: it has the class variable-row and
\* a .variable-name cell, and no data-category.
HeaderRow ==
    [name |->
         << "V", "a", "r", "i", "a", "b", "l", "e" >>,
     value |-> [label |-> "Predicted Value"],
     unit |-> "Unit",
     confidence |-> [label |-> "Confidence"],
     category |-> None,
     display |-> ""]

\* The row displayVariablesTable builds for one variable.  A confidence
\* that is missing or 0 is falsy and gives 'N/A'.
VariableRow(variable) ==
    [name |-> variable.name,
     value |-> toFixed3(variable.value),
     unit |-> IF variable.unit = None THEN "" ELSE variable.unit[1],
     confidence |->
         IF variable.confidence = None \/ variable.confidence[1] = 0
         THEN [label |-> "N/A"]
         ELSE toFixed1Percent(variable.confidence[1]),
     category |-> Some(getVariableCategory(variable.name)),
     display |-> ""]

\* displayVariablesTable with the container left as it was.
AppendToTable(container, variables) ==
    container \o << HeaderRow >>
        \o [k \in 1..Len(variables) |-> VariableRow(variables[k])]

\* displayVariablesTable(variables): the rows of #variablesTable, given the
\* rows the container held.
displayVariablesTable(container, variables) ==
    LET emptied == SubSeq(container, 1, 0) IN
    emptied \o << HeaderRow >>
        \o [k \in 1..Len(variables) |-> VariableRow(variables[k])]

\* filterVariables(searchTerm): every row with a .variable-name cell is
\* shown or hidden by its name alone.
filterVariables(rows, searchTerm) ==
    LET term == toLowerCase(searchTerm) IN
    [k \in 1..Len(rows) |->
        [rows[k] EXCEPT !.display =
            IF includes(toLowerCase(rows[k].name), term)
            THEN "grid" ELSE "none"]]

\* filterByCategory(category): every row with a .variable-name cell is
\* shown or hidden by its data-category alone.
filterByCategory(rows, category) ==
    [k \in 1..Len(rows) |->
        [rows[k] EXCEPT !.display =
            IF category = "all" \/ rows[k].category = Some(category)
            THEN "grid" ELSE "none"]]

\* displayResults(data): what is written to the results section, given
\* the rows the variables table held.
displayResults(container, data) ==
    [weatherSummary |-> data.summary,
     variablesTable |-> displayVariablesTable(container, data.variables),
     confidenceSection |-> displayConfidenceIntervals(data.confidence)]

\* The rows of #variablesTable.
TableRows == IF rendered = None THEN << >> ELSE rendered[1].variablesTable

\* attempts without its i-th element.
Without(seq, i) == SubSeq(seq, 1, i - 1) \o SubSeq(seq, i + 1, Len(seq))

\* The user enters a date, or clears the field.
DateInput(value) ==
    /\ IsOracle \/ IsDashboard
    /\ value # dateInput
    /\ dateInput' = value
    /\ lastCall' = "other"
    /\ UNCHANGED << filterVars, workerVars, app, now, currentCoords, predictBtn, locVars,
                    forecastVars, placeVars, selectedLocation, isLoading,
                    attempts, loadingVisible, errorState, resultsVisible,
                    currentData, rendered >>

----------------------------------------------------------------------------
\* WeatherOracle.

\* updateMapLocation(lat, lng): setView and marker.setLatLng, when the map
\* and the marker exist.
updateMapLocation(lat, lng) ==
    IF map # None /\ marker # None
    THEN /\ map' = Some(Point(lat, lng))
         /\ marker' = Some(Point(lat, lng))
    ELSE UNCHANGED << map, marker >>

\* updateLocationFromCoordinates, run by the input event of #latitudeInput
\* or #longitudeInput once the field holds the typed text.
updateLocationFromCoordinates(latText, lngText) ==
    LET lat == parseFloat(latText)
        lng == parseFloat(lngText)
    IN /\ latInput' = latText
       /\ lngInput' = lngText
       /\ IF ~isNaN(lat) /\ ~isNaN(lng)
          THEN /\ selectedLocation' =
                    Some([name |-> << toFixed4(lat[1]), ", ", toFixed4(lng[1]) >>,
                          latitude |-> lat[1],
                          longitude |-> lng[1]])
               /\ updateMapLocation(lat[1], lng[1])
          ELSE UNCHANGED << selectedLocation, map, marker >>

OracleTypeLatitude(text) ==
    /\ IsOracle
    /\ text # latInput
    /\ updateLocationFromCoordinates(text, lngInput)
    /\ lastCall' = "other"
    /\ UNCHANGED << filterVars, workerVars, app, now, currentCoords, predictBtn, coordDisplay,
                    forecastVars, placeVars, dateInput, isLoading, attempts,
                    loadingVisible, errorState, resultsVisible, currentData,
                    rendered >>

OracleTypeLongitude(text) ==
    /\ IsOracle
    /\ text # lngInput
    /\ updateLocationFromCoordinates(latInput, text)
    /\ lastCall' = "other"
    /\ UNCHANGED << filterVars, workerVars, app, now, currentCoords, predictBtn, coordDisplay,
                    forecastVars, placeVars, dateInput, isLoading, attempts,
                    loadingVisible, errorState, resultsVisible, currentData,
                    rendered >>

\* The request of WeatherOracle's fetch(`${apiBaseUrl}/predict`, POST).
OracleRequest(date, location) ==
    [host |-> ModelServer, method |-> "POST", path |-> "/api/predict",
     date |-> date,
     location |-> Some([name |-> location.name,
                        latitude |-> location.latitude,
                        longitude |-> location.longitude])]

\* WeatherOracle.predictEnvironment's finally block.
OracleFinally ==
    /\ isLoading' = FALSE
    /\ predictBtn' = [disabled |-> FALSE, text |-> "Generate Prediction",
                      spinner |-> predictBtn.spinner]

\* predictEnvironment without its date check: an empty date is posted.
PredictWithoutDateCheck(errorVisible) ==
    IF isLoading
    THEN /\ errorState' = [errorState EXCEPT !.visible = errorVisible]
         /\ UNCHANGED << isLoading, attempts, loadingVisible, resultsVisible,
                         predictBtn >>
    ELSE IF selectedLocation = None
    THEN /\ errorState' = [visible |-> TRUE, message |-> SelectLocationMessage]
         /\ UNCHANGED << isLoading, attempts, loadingVisible, resultsVisible,
                         predictBtn >>
    ELSE /\ isLoading' = TRUE
         /\ loadingVisible' = TRUE
         /\ errorState' = [errorState EXCEPT !.visible = FALSE]
         /\ resultsVisible' = FALSE
         /\ predictBtn' = [disabled |-> TRUE, text |-> "Processing...",
                           spinner |-> predictBtn.spinner]
         /\ attempts' = Append(attempts,
                               [phase |-> "fetch",
                                request |-> OracleRequest(
                                    IF dateInput = None THEN DefaultDate
                                    ELSE dateInput[1],
                                    selectedLocation[1]),
                                data |-> None])

\* predictEnvironment without its isLoading guard.
PredictWhileLoading(errorVisible) ==
    IF dateInput = None
    THEN /\ errorState' = [visible |-> TRUE, message |-> SelectDateMessage]
         /\ UNCHANGED << isLoading, attempts, loadingVisible, resultsVisible,
                         predictBtn >>
    ELSE IF selectedLocation = None
    THEN /\ errorState' = [visible |-> TRUE, message |-> SelectLocationMessage]
         /\ UNCHANGED << isLoading, attempts, loadingVisible, resultsVisible,
                         predictBtn >>
    ELSE /\ Len(attempts) < MaxInFlight
         /\ isLoading' = TRUE
         /\ loadingVisible' = TRUE
         /\ errorState' = [errorState EXCEPT !.visible = FALSE]
         /\ resultsVisible' = FALSE
         /\ predictBtn' = [disabled |-> TRUE, text |-> "Processing...",
                           spinner |-> predictBtn.spinner]
         /\ attempts' = Append(attempts,
                               [phase |-> "fetch",
                                request |-> OracleRequest(dateInput[1],
                                                          selectedLocation[1]),
                                data |-> None])

\* WeatherOracle.predictEnvironment up to its first await.  errorVisible:
\* whether #errorState is shown when it is called (Retry hides it first).
OraclePredictEnvironment(errorVisible) ==
    IF isLoading
    THEN /\ errorState' = [errorState EXCEPT !.visible = errorVisible]
         /\ UNCHANGED << isLoading, attempts, loadingVisible, resultsVisible,
                         predictBtn >>
    ELSE IF dateInput = None
    THEN /\ errorState' = [visible |-> TRUE, message |-> SelectDateMessage]
         /\ UNCHANGED << isLoading, attempts, loadingVisible, resultsVisible,
                         predictBtn >>
    ELSE IF selectedLocation = None
    THEN /\ errorState' = [visible |-> TRUE, message |-> SelectLocationMessage]
         /\ UNCHANGED << isLoading, attempts, loadingVisible, resultsVisible,
                         predictBtn >>
    ELSE /\ isLoading' = TRUE
         /\ loadingVisible' = TRUE
         /\ errorState' = [errorState EXCEPT !.visible = FALSE]
         /\ resultsVisible' = FALSE
         /\ predictBtn' = [disabled |-> TRUE, text |-> "Processing...",
                           spinner |-> predictBtn.spinner]
         /\ attempts' = Append(attempts,
                               [phase |-> "fetch",
                                request |-> OracleRequest(dateInput[1],
                                                          selectedLocation[1]),
                                data |-> None])

\* A click on #predictBtn (a disabled button gets no click).
OraclePredictClick ==
    /\ IsOracle
    /\ ~predictBtn.disabled
    /\ OraclePredictEnvironment(errorState.visible)
    /\ lastCall' = "predict"
    /\ UNCHANGED << filterVars, workerVars, app, now, currentCoords, locVars, forecastVars, placeVars,
                    dateInput, selectedLocation, currentData, rendered >>

\* The Enter key in #dateInput.
OracleEnterKey ==
    /\ IsOracle
    /\ OraclePredictEnvironment(errorState.visible)
    /\ lastCall' = "predict"
    /\ UNCHANGED << filterVars, workerVars, app, now, currentCoords, locVars, forecastVars, placeVars,
                    dateInput, selectedLocation, currentData, rendered >>

\* A click on #retryBtn: hideError, then predictEnvironment.
OracleRetryClick ==
    /\ IsOracle
    /\ OraclePredictEnvironment(FALSE)
    /\ lastCall' = "retry"
    /\ UNCHANGED << filterVars, workerVars, app, now, currentCoords, locVars, forecastVars, placeVars,
                    dateInput, selectedLocation, currentData, rendered >>

\* fetch() rejects, or resolves with a status that is not OK, or the body
\* is no JSON: the catch block, then the finally block.
OracleFetchFails(i) ==
    /\ IsOracle
    /\ i \in 1..Len(attempts)
    /\ attempts[i].phase = "fetch"
    /\ attempts' = Without(attempts, i)
    /\ loadingVisible' = FALSE
    /\ errorState' = [visible |-> TRUE, message |-> FailedMessage]
    /\ OracleFinally
    /\ lastCall' = "failed"
    /\ UNCHANGED << filterVars, workerVars, app, now, currentCoords, locVars, forecastVars, placeVars,
                    dateInput, selectedLocation, resultsVisible, currentData,
                    rendered >>

\* fetch() resolves with an OK status and the body is read: currentData is
\* set and the 1 s delay starts.
OracleResponseArrives(i, data) ==
    /\ IsOracle
    /\ i \in 1..Len(attempts)
    /\ attempts[i].phase = "fetch"
    /\ attempts' = [attempts EXCEPT ![i].phase = "delay", ![i].data = Some(data)]
    /\ currentData' = Some(data)
    /\ lastCall' = "other"
    /\ UNCHANGED << filterVars, workerVars, app, now, currentCoords, predictBtn, locVars,
                    forecastVars, placeVars, dateInput, selectedLocation,
                    isLoading, loadingVisible, errorState, resultsVisible,
                    rendered >>

\* The 1 s delay is over: displayResults, hideLoading, showResults, then
\* the finally block.
OracleDelayElapsed(i) ==
    /\ IsOracle
    /\ i \in 1..Len(attempts)
    /\ attempts[i].phase = "delay"
    /\ attempts' = Without(attempts, i)
    /\ rendered' = Some(displayResults(TableRows, attempts[i].data[1]))
    /\ currentData' = Some(AfterDisplay(attempts[i].data[1]))
    /\ loadingVisible' = FALSE
    /\ resultsVisible' = TRUE
    /\ OracleFinally
    /\ lastCall' = "succeeded"
    /\ UNCHANGED << filterVars, workerVars, app, now, currentCoords, locVars, forecastVars, placeVars,
                    dateInput, selectedLocation, errorState >>

----------------------------------------------------------------------------
\* EnvironmentalDashboard.

\* The request of EnvironmentalDashboard's fetch: body {date}.
DashboardRequest(date) ==
    [host |-> ModelServer, method |-> "POST", path |-> "/api/predict",
     date |-> date, location |-> None]

\* EnvironmentalDashboard.predictEnvironment up to its await.  (Retry's
\* hideError before it makes no difference: both paths set the element.)
\* Each call in progress is kept in the order of the calls; superseded
\* records that a later call has sent a request since.
DashboardPredictEnvironment ==
    IF dateInput = None
    THEN /\ errorState' = [visible |-> TRUE, message |-> SelectDateMessage]
         /\ UNCHANGED << attempts, loadingVisible, resultsVisible >>
    ELSE /\ Len(attempts) < MaxInFlight
         /\ loadingVisible' = TRUE
         /\ errorState' = [errorState EXCEPT !.visible = FALSE]
         /\ resultsVisible' = FALSE
         /\ attempts' = Append([k \in 1..Len(attempts) |->
                                   [attempts[k] EXCEPT !.superseded = TRUE]],
                               [phase |-> "fetch",
                                request |-> DashboardRequest(dateInput[1]),
                                data |-> None,
                                superseded |-> FALSE])

\* A click on #predictBtn, or the Enter key in #dateInput.
DashboardPredictClick ==
    /\ IsDashboard
    /\ DashboardPredictEnvironment
    /\ lastCall' = "predict"
    /\ UNCHANGED << filterVars, workerVars, app, now, currentCoords, predictBtn, locVars,
                    forecastVars, placeVars, dateInput, selectedLocation,
                    isLoading, currentData, rendered >>

\* A click on #retryBtn: hideError, then predictEnvironment.
DashboardRetryClick ==
    /\ IsDashboard
    /\ DashboardPredictEnvironment
    /\ lastCall' = "retry"
    /\ UNCHANGED << filterVars, workerVars, app, now, currentCoords, predictBtn, locVars,
                    forecastVars, placeVars, dateInput, selectedLocation,
                    isLoading, currentData, rendered >>

\* fetch() rejects, or resolves with a status that is not OK, or the body
\* is no JSON: the catch block.
DashboardFetchFails(i) ==
    /\ IsDashboard
    /\ i \in 1..Len(attempts)
    /\ attempts' = Without(attempts, i)
    /\ loadingVisible' = FALSE
    /\ errorState' = [visible |-> TRUE, message |-> FailedMessage]
    /\ lastCall' = "failed"
    /\ UNCHANGED << filterVars, workerVars, app, now, currentCoords, predictBtn, locVars,
                    forecastVars, placeVars, dateInput, selectedLocation,
                    isLoading, resultsVisible, currentData, rendered >>

\* fetch() resolves with an OK status and the body is read: the results are
\* displayed.
DashboardResponseArrives(i, data) ==
    /\ IsDashboard
    /\ i \in 1..Len(attempts)
    /\ attempts' = Without(attempts, i)
    /\ currentData' = Some(AfterDisplay(data))
    /\ rendered' = Some(displayResults(TableRows, data))
    /\ loadingVisible' = FALSE
    /\ resultsVisible' = TRUE
    /\ lastCall' = "succeeded"
    /\ UNCHANGED << filterVars, workerVars, app, now, currentCoords, predictBtn, locVars,
                    forecastVars, placeVars, dateInput, selectedLocation,
                    isLoading, errorState >>

----------------------------------------------------------------------------
\* Initial states: the page after its script has run.

\* ---- The table filters of the dashboards ----

\* The table with its rows replaced.
WithRows(rows) ==
    IF rendered = None THEN rendered
    ELSE Some([rendered[1] EXCEPT !.variablesTable = rows])

\* WeatherOracle, input event of #searchInput: the pending timer is
\* cleared and a new one of 300 ms is set.
OracleSearchInput(term) ==
    /\ IsOracle
    /\ term # searchInput
    /\ searchInput' = term
    /\ searchTimer' = TRUE
    /\ lastCall' = "other"
    /\ UNCHANGED << activeFilter, workerVars, app, now, currentCoords, predictBtn, locVars,
                    forecastVars, placeVars, dashVars >>

\* WeatherOracle, the debounce timer fires: filterVariables(e.target.value),
\* the value the input has by now.
OracleSearchTimerFires ==
    /\ IsOracle
    /\ searchTimer
    /\ searchTimer' = FALSE
    /\ rendered' = WithRows(filterVariables(TableRows, searchInput))
    /\ lastCall' = "other"
    /\ UNCHANGED << searchInput, activeFilter, workerVars, app, now, currentCoords,
                    predictBtn, locVars, forecastVars, placeVars, dateInput,
                    selectedLocation, isLoading, attempts, loadingVisible,
                    errorState, resultsVisible, currentData >>

\* EnvironmentalDashboard, input event of #searchInput: filterVariables at
\* once.
DashboardSearchInput(term) ==
    /\ IsDashboard
    /\ term # searchInput
    /\ searchInput' = term
    /\ rendered' = WithRows(filterVariables(TableRows, term))
    /\ lastCall' = "other"
    /\ UNCHANGED << activeFilter, searchTimer, workerVars, app, now, currentCoords,
                    predictBtn, locVars, forecastVars, placeVars, dateInput,
                    selectedLocation, isLoading, attempts, loadingVisible,
                    errorState, resultsVisible, currentData >>

\* Both dashboards, click on a .filter-btn: setActiveFilter, then
\* filterByCategory(e.target.dataset.category).
FilterClick(category) ==
    /\ IsOracle \/ IsDashboard
    /\ activeFilter' = category
    /\ rendered' = WithRows(filterByCategory(TableRows, category))
    /\ lastCall' = "other"
    /\ UNCHANGED << searchInput, searchTimer, workerVars, app, now, currentCoords,
                    predictBtn, locVars, forecastVars, placeVars, dateInput,
                    selectedLocation, isLoading, attempts, loadingVisible,
                    errorState, resultsVisible, currentData >>

\* ---- The service worker ----

IsWorker == app = "ServiceWorker"

CACHE == "weaza-v1"
ASSETS ==
    { "./", "./index.html", "./styles.css", "./app.js",
      "./assets/icons/weather-sun.svg" }

\* The URL a request is for.
UrlOf(request) == << request.host, request.path >>

\* What CacheStorage keeps of a request and its response in one cache.
Entry(cache, request, response) ==
    [cache |-> cache, url |-> UrlOf(request), method |-> request.method,
     response |-> response]

\* caches.match(request): a request that is not a GET matches nothing;
\* otherwise the response stored for the URL, if there is one.  (Fetch
\* events run once activate has left a single cache.)
CacheMatch(request) ==
    IF request.method # "GET" THEN None
    ELSE IF \E e \in caches : e.url = UrlOf(request)
    THEN Some((CHOOSE e \in caches : e.url = UrlOf(request)).response)
    ELSE None

\* cache.put that keeps only responses with status 200.
CachePutOkOnly(store, cache, request, response) ==
    IF request.method # "GET" \/ response.status # 200 THEN store
    ELSE { e \in store : ~(e.cache = cache /\ e.url = << request.host, request.path >>) }
         \cup { [cache |-> cache, url |-> << request.host, request.path >>,
                  method |-> request.method, response |-> response] }

\* cache.put(request, response) on the cache of that name: it rejects for
\* a request that is not a GET, and replaces the entry of the URL.
CachePut(store, cache, request, response) ==
    IF request.method # "GET" THEN store
    ELSE { e \in store : ~(e.cache = cache /\ e.url = UrlOf(request)) }
         \cup { Entry(cache, request, response) }

\* The method test of the fetch handler left out.
IsAnyRequest(request) == request.method = request.method

\* request.method !== 'GET' is false.
IsGetRequest(request) == request.method = "GET"

\* How a fetch event ended: declined (the handler returned without
\* respondWith, the browser performs the request itself), or answered by the
\* worker from the cache, from the network, or with a network error.
Answer(by, request, response) ==
    [by |-> by, method |-> request.method, url |-> UrlOf(request),
     response |-> response]
NoAnswer == [by |-> "none", method |-> "", url |-> << >>, response |-> None]

\* install: addAll(ASSETS) fetches and stores every asset, or stores none
\* when one of them fails; then skipWaiting().
WorkerInstall(ok, response) ==
    /\ IsWorker
    /\ swState = "installing"
    /\ IF ok
       THEN /\ caches' = { e \in caches : e.cache # CACHE \/ e.url[2] \notin ASSETS }
                          \cup { Entry(CACHE, GetRequest(PageOrigin, path, << >>),
                                       response) : path \in ASSETS }
            /\ swState' = "activating"
       ELSE /\ swState' = "redundant"
            /\ UNCHANGED caches
    /\ UNCHANGED << pageVars, swEvents, swLast >>

\* activate: every cache but CACHE is deleted; clients.claim().
WorkerActivate ==
    /\ IsWorker
    /\ swState = "activating"
    /\ caches' = { e \in caches : e.cache = CACHE }
    /\ swState' = "activated"
    /\ UNCHANGED << pageVars, swEvents, swLast >>

\* fetch event, the handler itself: it returns at once for a request that
\* is not a GET, and calls respondWith(caches.match(request)...) otherwise.
WorkerFetchEvent(request) ==
    /\ IsWorker
    /\ swState = "activated"
    /\ Len(swEvents) < MaxInFlight
    /\ IF IsGetRequest(request)
       THEN /\ swEvents' = Append(swEvents, [request |-> request,
                                             phase |-> "match",
                                             response |-> None])
            /\ UNCHANGED swLast
       ELSE /\ swLast' = Answer("declined", request, None)
            /\ UNCHANGED swEvents
    /\ UNCHANGED << pageVars, swState, caches >>

\* caches.match(request) settles: the cached response answers the event,
\* or fetch(request) is called.
WorkerCacheMatched(i) ==
    /\ IsWorker
    /\ i \in 1..Len(swEvents)
    /\ swEvents[i].phase = "match"
    /\ LET cached == CacheMatch(swEvents[i].request) IN
       IF cached # None
       THEN /\ swLast' = Answer("cache", swEvents[i].request, cached)
            /\ swEvents' = Without(swEvents, i)
       ELSE /\ swEvents' = [swEvents EXCEPT ![i].phase = "network"]
            /\ UNCHANGED swLast
    /\ UNCHANGED << pageVars, swState, caches >>

\* fetch(request) resolves: the response answers the event and its clone
\* is handed to caches.open(CACHE).then(c => c.put(request, copy)).
WorkerNetworkResponds(i, res) ==
    /\ IsWorker
    /\ i \in 1..Len(swEvents)
    /\ swEvents[i].phase = "network"
    /\ swLast' = Answer("network", swEvents[i].request, Some(res))
    /\ swEvents' = [swEvents EXCEPT ![i].phase = "put", ![i].response = Some(res)]
    /\ UNCHANGED << pageVars, swState, caches >>

\* fetch(request) rejects: catch(() => cached) answers with the cached
\* value, which is undefined here, so the page gets a network error.
WorkerNetworkFails(i) ==
    /\ IsWorker
    /\ i \in 1..Len(swEvents)
    /\ swEvents[i].phase = "network"
    /\ swLast' = Answer("error", swEvents[i].request, None)
    /\ swEvents' = Without(swEvents, i)
    /\ UNCHANGED << pageVars, swState, caches >>

\* The put of the clone is done.
WorkerCachePut(i) ==
    /\ IsWorker
    /\ i \in 1..Len(swEvents)
    /\ swEvents[i].phase = "put"
    /\ caches' = CachePut(caches, CACHE, swEvents[i].request,
                          swEvents[i].response[1])
    /\ swEvents' = Without(swEvents, i)
    /\ UNCHANGED << pageVars, swState, swLast >>

\* Controls the script has not written yet hold what the markup gives them.
Markup == "(markup)"

\* The filter controls as the markup gives them: no search term, the
\* 'all' button active.
FilterIdle ==
    /\ searchInput = << >>
    /\ activeFilter = "all"
    /\ searchTimer = FALSE

\* No service worker controls the page.
WorkerIdle ==
    /\ swState = "none"
    /\ caches = {}
    /\ swEvents = << >>
    /\ swLast = NoAnswer

DashIdle ==
    /\ dateInput = None
    /\ selectedLocation = None
    /\ isLoading = FALSE
    /\ attempts = << >>
    /\ loadingVisible = FALSE
    /\ errorState = [visible |-> FALSE, message |-> Markup]
    /\ resultsVisible = FALSE
    /\ currentData = None
    /\ rendered = None

ForecastIdle ==
    /\ now = LoadDay * TicksPerDay
    /\ waFetch = None
    /\ weatherDisplay = None
    /\ theme = Markup
    /\ apiError = [hidden |-> TRUE, text |-> << >>, timers |-> 0]
    /\ coordError = [hidden |-> TRUE, text |-> Markup, timers |-> 0]
    /\ geocodes = << >>
    /\ useLocation = "idle"
    /\ predictBtn = [disabled |-> FALSE, text |-> Markup, spinner |-> Markup]

\* new WeatherApp().  leaflet: whether the Leaflet script has loaded; when
\* it has not, initializeMap throws and init stops after setupEventListeners.
\* (loadCountries' request has been answered: the country list is filled.)
WeatherAppInit(leaflet) ==
    /\ app = "WeatherApp"
    /\ FilterIdle
    /\ WorkerIdle
    /\ lastCall = "load"
    /\ ForecastIdle
    /\ DashIdle
    /\ IF leaflet
       THEN /\ map = Some(Point(DefaultLat, DefaultLng))
            /\ marker = Some(Point(DefaultLat, DefaultLng))
            /\ currentCoords = Some(Point(DefaultLat, DefaultLng))
            /\ latInput = toFixed6(DefaultLat)
            /\ lngInput = toFixed6(DefaultLng)
            /\ coordDisplay = << toFixed6(DefaultLat), toFixed6(DefaultLng) >>
            /\ datePicker = Some(LoadDay)
            /\ citySelect = [countries |-> { "France" }, country |-> "",
                             fetch |-> None, disabled |-> TRUE,
                             options |-> {}, city |-> ""]
       ELSE /\ map = None
            /\ marker = None
            /\ currentCoords = None
            /\ latInput = EmptyText
            /\ lngInput = EmptyText
            /\ coordDisplay = << >>
            /\ datePicker = None
            /\ citySelect = [countries |-> {}, country |-> "",
                             fetch |-> None, disabled |-> TRUE,
                             options |-> {}, city |-> ""]

\* What both dashboards leave of the WeatherApp page's state.
NoForecast ==
    /\ ForecastIdle
    /\ currentCoords = None
    /\ datePicker = None
    /\ coordDisplay = << >>
    /\ citySelect = [countries |-> {}, country |-> "", fetch |-> None,
                     disabled |-> TRUE, options |-> {}, city |-> ""]

\* new WeatherOracle(), with Leaflet loaded.
WeatherOracleInit ==
    /\ app = "WeatherOracle"
    /\ FilterIdle
    /\ WorkerIdle
    /\ lastCall = "load"
    /\ NoForecast
    /\ map = Some(Point(DefaultLat, DefaultLng))
    /\ marker = Some(Point(DefaultLat, DefaultLng))
    /\ latInput = EmptyText
    /\ lngInput = EmptyText
    /\ selectedLocation = None
    /\ isLoading = FALSE
    /\ attempts = << >>
    /\ loadingVisible = FALSE
    /\ errorState = [visible |-> FALSE, message |-> Markup]
    /\ resultsVisible = FALSE
    /\ currentData = None
    /\ rendered = None
    /\ dateInput = Some(DefaultDate)

\* new EnvironmentalDashboard().
EnvironmentalDashboardInit ==
    /\ app = "EnvironmentalDashboard"
    /\ FilterIdle
    /\ WorkerIdle
    /\ lastCall = "load"
    /\ NoForecast
    /\ map = None
    /\ marker = None
    /\ latInput = EmptyText
    /\ lngInput = EmptyText
    /\ selectedLocation = None
    /\ isLoading = FALSE
    /\ attempts = << >>
    /\ loadingVisible = FALSE
    /\ errorState = [visible |-> FALSE, message |-> Markup]
    /\ resultsVisible = FALSE
    /\ currentData = None
    /\ rendered = None
    /\ dateInput = Some(DefaultDate)

Init ==
    \/ \E leaflet \in BOOLEAN : WeatherAppInit(leaflet)
    \/ WeatherOracleInit
    \/ EnvironmentalDashboardInit

\* The prediction pipelines of the three pages.
Next ==
    \/ \E text \in TypedLat : TypeLatitude(text)
    \/ \E text \in TypedLng : TypeLongitude(text)
    \/ \E value \in PickedDates : DateChange(value)
    \/ Tick
    \/ PredictClick
    \/ FetchRejects
    \/ \E response \in ModelResponses : ResponseArrives(response)
    \/ ApiTimerFires
    \/ \E value \in DashDates : DateInput(value)
    \/ \E text \in TypedLat : OracleTypeLatitude(text)
    \/ \E text \in TypedLng : OracleTypeLongitude(text)
    \/ OraclePredictClick
    \/ OracleEnterKey
    \/ OracleRetryClick
    \/ \E i \in 1..MaxInFlight : OracleFetchFails(i)
    \/ \E i \in 1..MaxInFlight, data \in DashData : OracleResponseArrives(i, data)
    \/ \E i \in 1..MaxInFlight : OracleDelayElapsed(i)
    \/ DashboardPredictClick
    \/ DashboardRetryClick
    \/ \E i \in 1..MaxInFlight : DashboardFetchFails(i)
    \/ \E i \in 1..MaxInFlight, data \in DashData : DashboardResponseArrives(i, data)

Spec == Init /\ [][Next]_vars

\* WeatherApp with its place lookup: map, search box, geolocation, country
\* and city lists, and the prediction for the place found.
\* The model server's answers here: one forecast.
PlaceResponses ==
    { Response(200, Body(TRUE, TRUE,
                         Some([temperature |-> Some([air_temperature |-> 215,
                                                     feels_like |-> 198]),
                               primary |-> "Rain"]),
                         None)) }

PlacesInit == \E leaflet \in BOOLEAN : WeatherAppInit(leaflet)

PlacesNext ==
    \/ \E p \in MapPoints : MapClick(p)
    \/ \E p \in MapPoints : MarkerDragEnd(p)
    \/ \E q \in SearchQueries : Search(q)
    \/ \E i \in 1..MaxGeocodes, outcome \in { "hit", "none", "failed" },
          p \in GeocodeHits : GeocodeSettles(i, outcome, p)
    \/ CoordTimerFires
    \/ UseLocationClick
    \/ \E p \in MapPoints : PositionFound(p)
    \/ PositionError
    \/ CountryChange
    \/ \E ok \in BOOLEAN : CitiesSettle(ok)
    \/ \E city \in PickedCities : CityChange(city)
    \/ PredictClick
    \/ \E response \in PlaceResponses : ResponseArrives(response)
    \/ ApiTimerFires

PlacesSpec == PlacesInit /\ [][PlacesNext]_vars

\* The dashboards' confidence section.  The variable names of the entries
\* of a confidence list, by position, and the confidences they come with.
ConfidenceNames ==
    << "air_temperature", "soil_moisture", "humidity", "radiation",
       "rainfall", "snowfall", "wind_speed", "pressure" >>
ConfidenceValues == { 2500, 9000 }

\* Responses with every confidence list of up to MaxConfidence entries, and
\* one without the member.
ConfidenceData ==
    { [summary |-> [temperature |-> 52, rain_probability |-> 30],
       variables |-> << >>,
       confidence |-> c] :
        c \in { None } \cup
              { Some([i \in 1..n |-> [variable |-> ConfidenceNames[i],
                                      confidence |-> f[i]]]) :
                  n \in 0..MaxConfidence, f \in [1..MaxConfidence -> ConfidenceValues] } }

ConfidenceInit == WeatherOracleInit \/ EnvironmentalDashboardInit

ConfidenceNext ==
    \/ OracleTypeLatitude(NumberText(DefaultLat))
    \/ OracleTypeLongitude(NumberText(0))
    \/ OraclePredictClick
    \/ \E i \in 1..MaxInFlight, data \in ConfidenceData :
          OracleResponseArrives(i, data)
    \/ \E i \in 1..MaxInFlight : OracleDelayElapsed(i)
    \/ DashboardPredictClick
    \/ \E i \in 1..MaxInFlight, data \in ConfidenceData :
          DashboardResponseArrives(i, data)

ConfidenceSpec == ConfidenceInit /\ [][ConfidenceNext]_vars

\* ---- Responses that fill the variables table ----

\* Variable names are put together from these pieces.
NameFragments ==
    << <<  >>,
       << "T", "e", "m", "p", "e", "r", "a", "t", "u", "r", "e" >>,
       << "M", "O", "I", "S", "T", "U", "R", "E" >>,
       << "H", "u", "m", "i", "d", "i", "t", "y" >>,
       << "r", "a", "d", "i", "a", "t", "i", "o", "n" >>,
       << "F", "l", "u", "x" >>,
       << "P", "R", "E", "C", "I", "P", "I", "T", "A", "T", "I", "O", "N" >>,
       << "T", "e", "r", "r", "a", "i", "n" >>,
       << "s", "n", "o", "w" >>,
       << "W", "i", "n", "d" >>,
       << "_" >> >>

\* The pieces of each name: every piece alone, then pairs that hold
\* keywords of two categories in either order, or none.
NamePairs ==
    << << 1, 1 >>, << 1, 2 >>, << 1, 3 >>, << 1, 4 >>, << 1, 5 >>, << 1, 6 >>,
       << 1, 7 >>, << 1, 8 >>, << 1, 9 >>, << 1, 10 >>, << 1, 11 >>,
       << 7, 2 >>, << 2, 7 >>, << 9, 6 >>, << 6, 3 >>, << 4, 2 >>, << 8, 5 >>,
       << 3, 9 >>, << 5, 7 >>, << 10, 11 >>, << 11, 8 >>, << 10, 4 >> >>

NameAt(k) ==
    NameFragments[NamePairs[k][1]] \o NameFragments[NamePairs[k][2]]

TableValues == << 0, 12344, -12346, 250006 >>
TableUnits == << None, Some("K"), Some("kg/m2") >>
TableConfidences == << None, Some(0), Some(8730), Some(10000), Some(1) >>

\* One variable per name.
AllVariables ==
    [k \in 1..Len(NamePairs) |->
        [name |-> NameAt(k),
         value |-> TableValues[(k % Len(TableValues)) + 1],
         unit |-> TableUnits[(k % Len(TableUnits)) + 1],
         confidence |-> TableConfidences[(k % Len(TableConfidences)) + 1]]]

\* A response with every variable, one with a few and one with none.
TableData ==
    { [summary |-> [temperature |-> 52, rain_probability |-> 30],
       variables |-> v,
       confidence |-> None] :
        v \in { AllVariables, SubSeq(AllVariables, 2, 4), << >> } }

\* What is typed into #searchInput, and the data-category of the filter
\* buttons.
SearchTerms ==
    { << >>, << "r", "a", "i", "n" >>, << "T", "E", "M", "P" >> }
FilterCategories ==
    { "all", "temperature", "moisture", "radiation", "precipitation", "other" }

TableInit == WeatherOracleInit \/ EnvironmentalDashboardInit

TableNext ==
    \/ OracleTypeLatitude(NumberText(DefaultLat))
    \/ OracleTypeLongitude(NumberText(0))
    \/ OraclePredictClick
    \/ \E i \in 1..MaxInFlight, data \in TableData :
          OracleResponseArrives(i, data)
    \/ \E i \in 1..MaxInFlight : OracleDelayElapsed(i)
    \/ DashboardPredictClick
    \/ \E i \in 1..MaxInFlight, data \in TableData :
          DashboardResponseArrives(i, data)
    \/ \E term \in SearchTerms : OracleSearchInput(term)
    \/ OracleSearchTimerFires
    \/ \E term \in SearchTerms : DashboardSearchInput(term)
    \/ \E category \in FilterCategories : FilterClick(category)

TableSpec == TableInit /\ [][TableNext]_vars

\* ---- The service worker on its own ----

\* Responses of the network.
WorkerResponses ==
    { [status |-> 200, body |-> "first"], [status |-> 200, body |-> "second"],
      [status |-> 404, body |-> "first"] }

\* Requests of the page the worker controls: the prediction, an asset of
\* ASSETS, and the cities file.
WorkerRequests ==
    { PredictRequest(LoadDay * TicksPerDay, Point(DefaultLat, DefaultLng)),
      GetRequest(PageOrigin, "./app.js", << >>),
      GetRequest(PageOrigin, "data/cities/France.json", << >>) }

\* A cache an earlier version of the worker may have left.
EarlierCaches ==
    { {}, { Entry("weaza-v0", GetRequest(PageOrigin, "./app.js", << >>),
                  [status |-> 200, body |-> "first"]) } }

\* The worker script has been registered and its install event is due.
WorkerInit ==
    /\ app = "ServiceWorker"
    /\ lastCall = "load"
    /\ FilterIdle
    /\ NoForecast
    /\ DashIdle
    /\ map = None
    /\ marker = None
    /\ latInput = EmptyText
    /\ lngInput = EmptyText
    /\ swState = "installing"
    /\ caches \in EarlierCaches
    /\ swEvents = << >>
    /\ swLast = NoAnswer

WorkerNext ==
    \/ \E ok \in BOOLEAN, response \in { r \in WorkerResponses : r.status = 200 } :
          WorkerInstall(ok, response)
    \/ WorkerActivate
    \/ \E request \in WorkerRequests : WorkerFetchEvent(request)
    \/ \E i \in 1..MaxInFlight : WorkerCacheMatched(i)
    \/ \E i \in 1..MaxInFlight, res \in WorkerResponses :
          WorkerNetworkResponds(i, res)
    \/ \E i \in 1..MaxInFlight : WorkerNetworkFails(i)
    \/ \E i \in 1..MaxInFlight : WorkerCachePut(i)

WorkerSpec == WorkerInit /\ [][WorkerNext]_vars

\* Spec with the scheduling the browser guarantees: a timer that was set
\* fires.  Nothing makes the server answer, so the steps of a response have
\* no fairness.
FairSpec ==
    /\ Spec
    /\ WF_vars(\E i \in 1..MaxInFlight : OracleDelayElapsed(i))
    /\ WF_vars(ApiTimerFires)

----------------------------------------------------------------------------
\* Properties.

\* A response that is a failure: a status that is not OK, or a body without
\* success = true and data.
IsFailedResponse(response) ==
    \/ ~response.ok
    \/ ~response.body.parses
    \/ ~response.body.success
    \/ response.body.data = None

\* C1: in WeatherApp a failed POST (fetch rejected, status not OK, or a
\* body without success = true and data) changes no field of the weather
\* display and not the theme, and leaves an API error message shown.
NoMockOnFailure ==
    [][ (\/ FetchRejects
         \/ \E response \in ModelResponses :
               IsFailedResponse(response) /\ ResponseArrives(response))
        => /\ weatherDisplay' = weatherDisplay
           /\ theme' = theme
           /\ ~apiError'.hidden
           /\ Len(apiError'.text) = 3
           /\ apiError'.text[1] = "Failed to get weather prediction: " ]_vars

\* C1 happens: a forecast is on display and a later attempt has failed.
FailureAfterForecast ==
    /\ IsWeatherApp
    /\ lastCall = "failed"
    /\ weatherDisplay # None
    /\ ~apiError.hidden

\* C2: in both dashboards an attempt whose fetch fails ends with the loading
\* indicator hidden, the error state visible and the results hidden; and a
\* click on Retry (inputs present, no attempt running in WeatherOracle)
\* hides the error and starts a new attempt.
FailedFetchEndsInErrorState ==
    [][ /\ (\E i \in 1..MaxInFlight : OracleFetchFails(i) \/ DashboardFetchFails(i))
           => /\ ~loadingVisible'
              /\ errorState'.visible
              /\ ~resultsVisible'
        /\ (\/ OracleRetryClick /\ ~isLoading /\ dateInput # None
                                /\ selectedLocation # None
            \/ DashboardRetryClick /\ dateInput # None)
           => /\ ~errorState'.visible
              /\ Len(attempts') = Len(attempts) + 1
              /\ loadingVisible' ]_vars

\* An attempt is in its loading state.
InLoadingState == loadingVisible \/ isLoading \/ waFetch # None

\* C3: every attempt that entered the loading state leaves it, whether or
\* not the server ever answers.
LoadingStateEnds == InLoadingState ~> ~InLoadingState

\* C4: every attempt that settles (a forecast, a failed request, an error
\* thrown by the validation inside the attempt) leaves the user able to try
\* again: WeatherOracle has isLoading false and the button enabled with its
\* text reset; WeatherApp has the button enabled, its text reset and the
\* spinner hidden.
SettledAttemptCanRetry ==
    [][ /\ (\E i \in 1..MaxInFlight : OracleFetchFails(i) \/ OracleDelayElapsed(i))
           => /\ ~isLoading'
              /\ ~predictBtn'.disabled
              /\ predictBtn'.text = "Generate Prediction"
        /\ (\/ FetchRejects
            \/ \E response \in ModelResponses : ResponseArrives(response)
            \/ PredictClick /\ currentCoords # None /\ waFetch' = None)
           => /\ ~predictBtn'.disabled
              /\ predictBtn'.text = "Predict the Weather"
              /\ predictBtn'.spinner = "none" ]_vars

\* C4 happens: a WeatherOracle attempt has failed and the page is ready
\* for the next one.
OracleReadyAfterFailure ==
    /\ IsOracle
    /\ lastCall = "failed"
    /\ ~isLoading
    /\ ~predictBtn.disabled
    /\ predictBtn.text = "Generate Prediction"

\* The prediction requests in flight that carry a location, as
\* latitude/longitude pairs.
LocatedRequests ==
    { Point(waFetch[i].latitude, waFetch[i].longitude) : i \in 1..Len(waFetch) }
    \cup
    { Point(attempts[i].request.location[1].latitude,
            attempts[i].request.location[1].longitude) :
        i \in { j \in 1..Len(attempts) : attempts[j].request.location # None } }

\* C5: every prediction request that carries a location has its latitude
\* in [-90, 90] and its longitude in [-180, 180].
RequestCoordinatesInRange ==
    \A p \in LocatedRequests :
        /\ -90000000 <= p.lat /\ p.lat <= 90000000
        /\ -180000000 <= p.lng /\ p.lng <= 180000000

\* The day the clock is in.
Today == now \div TicksPerDay

\* C6: in WeatherApp, with latitude 95 and longitude 0 in the fields and
\* today's date picked, a click on Predict sends no request and shows an
\* error.
InvalidLatitudeRejected ==
    [][ (/\ PredictClick
         /\ latInput = NumberText(95000000)
         /\ lngInput = NumberText(0)
         /\ datePicker = Some(Today))
        => /\ waFetch' = None
           /\ ~apiError'.hidden ]_vars

\* ceil((day - now) / 24 h): the least k with k days >= day - now.
CeilDays(day) ==
    CHOOSE k \in -(MaxElapsed + 4)..(MaxDaysAhead + 4) :
        /\ k * TicksPerDay >= day * TicksPerDay - now
        /\ (k - 1) * TicksPerDay < day * TicksPerDay - now

\* C7: predictWeather (a location being selected) sends a request exactly
\* when a date is picked and daysFromNow = ceil((date - now) / 24 h) is in
\* 0..7; a later date is refused with the 7-day message, an earlier one
\* with the past-date message, no date with an error; today's date and the
\* date 7 days ahead are sent.
DateWindowEnforced ==
    [][ (PredictClick /\ currentCoords # None)
        => /\ (waFetch' # None)
                <=> (datePicker # None /\ CeilDays(datePicker[1]) \in 0..7)
           /\ waFetch' = None => ~apiError'.hidden /\ Len(apiError'.text) = 3
           /\ (datePicker # None /\ CeilDays(datePicker[1]) > 7)
                => apiError'.text[2] = "Cannot predict weather more than 7 days ahead"
           /\ (datePicker # None /\ CeilDays(datePicker[1]) < 0)
                => apiError'.text[2] = "Cannot predict weather for past dates"
           /\ (datePicker = Some(Today) \/ datePicker = Some(Today + 7))
                => /\ waFetch' # None
                   /\ waFetch'[1].date.date = datePicker[1] ]_vars

\* C7 happens: half a day into today, the date 7 days ahead has been sent.
SeventhDaySent ==
    /\ lastCall = "predict"
    /\ now % TicksPerDay # 0
    /\ datePicker = Some(Today + 7)
    /\ waFetch # None
    /\ waFetch[1].date.date = Today + 7

\* C8: every request EnvironmentalDashboard has sent carries a date in 2023.
DashboardDatesIn2023 ==
    IsDashboard =>
        \A i \in 1..Len(attempts) : attempts[i].request.date.year = 2023

\* What a call of predictEnvironment that fails validation leaves: nothing
\* sent, the loading indicator as it was, and the error named shown.
RejectedWith(message) ==
    /\ attempts' = attempts
    /\ loadingVisible' = loadingVisible
    /\ errorState' = [visible |-> TRUE, message |-> message]

\* A call of WeatherOracle.predictEnvironment.
OracleCall == OraclePredictClick \/ OracleEnterKey \/ OracleRetryClick
\* A call of EnvironmentalDashboard.predictEnvironment.
DashboardCall == DashboardPredictClick \/ DashboardRetryClick

\* C9 as stated: predictEnvironment with an empty date (both dashboards) or,
\* in WeatherOracle, without a location, sends nothing, does not enter the
\* loading state and shows the error naming the missing input; predictWeather
\* with currentCoords null sends nothing.
ValidationFailsFast ==
    [][ /\ (OracleCall /\ dateInput = None) => RejectedWith(SelectDateMessage)
        /\ (OracleCall /\ dateInput # None /\ selectedLocation = None)
             => RejectedWith(SelectLocationMessage)
        /\ (DashboardCall /\ dateInput = None) => RejectedWith(SelectDateMessage)
        /\ (PredictClick /\ currentCoords = None)
             => waFetch' = None /\ predictBtn' = predictBtn ]_vars

\* C9, with the case the code adds: a call made while WeatherOracle is
\* loading returns at once; it sends nothing and shows no message.
ValidationFailsFastUnlessLoading ==
    [][ /\ (OracleCall /\ ~isLoading /\ dateInput = None)
             => RejectedWith(SelectDateMessage)
        /\ (OracleCall /\ ~isLoading /\ dateInput # None /\ selectedLocation = None)
             => RejectedWith(SelectLocationMessage)
        /\ (OracleCall /\ isLoading)
             => /\ attempts' = attempts
                /\ loadingVisible' = loadingVisible
                /\ isLoading'
                /\ errorState'.message = errorState.message
                /\ errorState'.visible => errorState.visible
        /\ (DashboardCall /\ dateInput = None) => RejectedWith(SelectDateMessage)
        /\ (PredictClick /\ currentCoords = None)
             => waFetch' = None /\ predictBtn' = predictBtn ]_vars

\* C9 happens: WeatherOracle has refused a call for want of a location.
LocationDemanded ==
    /\ IsOracle
    /\ lastCall = "predict"
    /\ dateInput # None
    /\ selectedLocation = None
    /\ attempts = << >>
    /\ ~loadingVisible
    /\ errorState = [visible |-> TRUE, message |-> SelectLocationMessage]

\* The requests WeatherApp has in flight.
AppRequests ==
    { waFetch[i] : i \in 1..Len(waFetch) }
    \cup { geocodes[i] : i \in 1..Len(geocodes) }
    \cup { citySelect.fetch[i] : i \in 1..Len(citySelect.fetch) }

\* C10: every request of WeatherApp goes to the model server or to the
\* page's own origin.
NoExternalRequests ==
    \A r \in AppRequests : r.host \in { ModelServer, PageOrigin }

\* The error string a failed response carries, if its body can be read and
\* has one.
ErrorStringOf(response) ==
    IF response.body.parses THEN response.body.error ELSE None

\* C11: when a failed response carries an error string e (status not OK
\* with a JSON body {error: e}, or an OK body with success false and error
\* e), the message WeatherApp shows contains e; without an error string it
\* contains the status code (status not OK) or 'No weather data available
\* from model' (status OK).
ServerErrorIsShown ==
    [][ \A response \in ModelResponses :
          (IsFailedResponse(response) /\ ResponseArrives(response))
          => /\ ~apiError'.hidden
             /\ apiError'.text =
                  << "Failed to get weather prediction: ",
                     IF ErrorStringOf(response) # None
                     THEN ErrorStringOf(response)[1]
                     ELSE IF ~response.ok
                     THEN StatusMessage(response.status)
                     ELSE "No weather data available from model",
                     ". Please check if the model server is running." >> ]_vars

\* C11 happens: the server's own error string is on display after a failed
\* attempt.
ServerErrorOnDisplay ==
    /\ IsWeatherApp
    /\ lastCall = "failed"
    /\ ~apiError.hidden
    /\ Len(apiError.text) = 3
    /\ apiError.text[2] = "Model not loaded"

\* section is a top-5 rendering of the confidence list given (None: no
\* list): min(5, n) items, in non-increasing order of confidence, taken from
\* positions of the list none of which has less confidence than a position
\* left out; the notice and no items for an empty or missing list.
IsTopFiveOf(section, confidence) ==
    IF confidence = None \/ confidence = Some(<< >>)
    THEN section.notice /\ section.items = << >>
    ELSE LET list == confidence[1]
             items == section.items
         IN /\ ~section.notice
            /\ Len(items) = IF Len(list) < 5 THEN Len(list) ELSE 5
            /\ \A i, j \in 1..Len(items) :
                  i < j => items[i].width >= items[j].width
            /\ \E shown \in SUBSET (1..Len(list)) :
                  /\ Cardinality(shown) = Len(items)
                  /\ { << list[k].variable, list[k].confidence >> : k \in shown }
                       = { << items[i].variable, items[i].width >> :
                             i \in 1..Len(items) }
                  /\ \A k \in shown, m \in (1..Len(list)) \ shown :
                        list[k].confidence >= list[m].confidence

\* C12: when a dashboard has displayed a response, the confidence section
\* is a top-5 rendering of that response's confidence list (currentData is
\* the response displayed, its list possibly reordered).
ConfidenceSectionIsTopFive ==
    lastCall = "succeeded"
    => IsTopFiveOf(rendered[1].confidenceSection, currentData[1].confidence)

\* C12 happens: of six entries five are shown, not all of one confidence.
FiveOfSixShown ==
    /\ rendered # None
    /\ currentData # None
    /\ currentData[1].confidence # None
    /\ Len(currentData[1].confidence[1]) = 6
    /\ Len(rendered[1].confidenceSection.items) = 5
    /\ rendered[1].confidenceSection.items[1].width
         > rendered[1].confidenceSection.items[5].width

\* The categories in priority order, each with its keywords.
CategoryPriority ==
    << [category |-> "temperature", keywords |-> { KwTemperature }],
       [category |-> "moisture", keywords |-> { KwMoisture, KwHumidity }],
       [category |-> "radiation", keywords |-> { KwRadiation, KwFlux }],
       [category |-> "precipitation",
        keywords |-> { KwPrecipitation, KwRain, KwSnow }] >>

\* The first category in priority order one of whose keywords the name
\* contains, letter case ignored; 'other' when there is none.
FirstCategoryOf(name) ==
    LET hits == { k \in 1..Len(CategoryPriority) :
                    \E kw \in CategoryPriority[k].keywords :
                        includes(toLowerCase(name), kw) }
    IN  IF hits = {} THEN "other"
        ELSE CategoryPriority[CHOOSE k \in hits :
                                  \A j \in hits : k <= j].category

\* C13: every variable row carries exactly one category, the first one in
\* the priority order temperature, moisture, radiation, precipitation whose
\* keyword occurs in the name whatever its letter case, and 'other' when no
\* keyword occurs.
CategoryIsFirstMatch ==
    \A k \in 2..Len(TableRows) :
        TableRows[k].category = Some(FirstCategoryOf(TableRows[k].name))

\* C13 witness: a table where an upper-case keyword of a later category is
\* followed by a keyword of the first one, and where 'rain' occurs inside a
\* longer word.
MixedNamesCategorised ==
    /\ \E k \in 2..Len(TableRows) :
          /\ TableRows[k].name = NameFragments[7] \o NameFragments[2]
          /\ TableRows[k].category = Some("temperature")
    /\ \E k \in 2..Len(TableRows) :
          /\ TableRows[k].name = NameFragments[8]
          /\ TableRows[k].category = Some("precipitation")
    /\ \E k \in 2..Len(TableRows) :
          /\ TableRows[k].name = NameFragments[10] \o NameFragments[11]
          /\ TableRows[k].category = Some("other")

\* A row is visible unless its style.display is 'none'.
IsVisible(row) == row.display # "none"

\* C14: once the search input has been applied (no debounce timer is
\* pending), a variable row is visible exactly when its name contains the
\* current search term, letter case ignored, and its category is the active
\* filter, 'all' matching every category.
FiltersCombine ==
    ~searchTimer
    => \A k \in 2..Len(TableRows) :
          IsVisible(TableRows[k])
          <=> /\ includes(toLowerCase(TableRows[k].name),
                           toLowerCase(searchInput))
              /\ \/ activeFilter = "all"
                 \/ TableRows[k].category = Some(activeFilter)

\* C15: when a prediction has succeeded, the variables table holds the
\* header row followed by one row per variable of the response just
\* displayed, in the response's order, and nothing else: no row of an
\* earlier response remains.
TableShowsLatestResponse ==
    lastCall = "succeeded"
    => /\ Len(TableRows) = Len(currentData[1].variables) + 1
       /\ TableRows[1].name = << "V", "a", "r", "i", "a", "b", "l", "e" >>
       /\ TableRows[1].category = None
       /\ \A k \in 1..Len(currentData[1].variables) :
             /\ TableRows[k + 1].name = currentData[1].variables[k].name
             /\ TableRows[k + 1].category # None

\* C15 witness: a response with three variables has just been rendered
\* while a filter other than 'all' chosen on an earlier table is active.
ThreeVariablesRendered ==
    /\ lastCall = "succeeded"
    /\ activeFilter # "all"
    /\ Len(TableRows) = 4
    /\ \A k \in 1..3 : TableRows[k + 1].name = NameAt(k + 1)

\* The confidence cell of the row of variable k: one decimal of a
\* percentage, written from the variable of the response.
ShowsPercentage(row, confidence) ==
    row.confidence = [tenths |-> (confidence + 5) \div 10]

\* C19: every variable row shows the confidence of its variable as a
\* percentage with one decimal for every value from 0 to 1, 0 included, and
\* 'N/A' only when the response gives the variable no confidence.
ConfidenceShownAsPercentage ==
    lastCall = "succeeded"
    => \A k \in 1..Len(currentData[1].variables) :
          LET variable == currentData[1].variables[k] IN
          IF variable.confidence = None
          THEN TableRows[k + 1].confidence = [label |-> "N/A"]
          ELSE ShowsPercentage(TableRows[k + 1], variable.confidence[1])

\* C16: the request predictWeather sends has exactly the members date,
\* latitude and longitude (POST /predict on the model server); latitude and
\* longitude are the current coordinates at the moment of sending, and date
\* is midnight (00:00) of the very day the date picker holds.
RequestMatchesInputs ==
    (IsWeatherApp /\ lastCall = "predict" /\ waFetch # None)
    => /\ DOMAIN waFetch[1]
            = { "host", "method", "path", "date", "latitude", "longitude" }
       /\ waFetch[1].host = "localhost:5000"
       /\ waFetch[1].method = "POST"
       /\ waFetch[1].path = "/predict"
       /\ currentCoords # None
       /\ waFetch[1].latitude = currentCoords[1].lat
       /\ waFetch[1].longitude = currentCoords[1].lng
       /\ datePicker # None
       /\ waFetch[1].date = [date |-> datePicker[1], minutes |-> 0]

\* C16 witness: a request has just been sent for a later day than today from
\* coordinates other than the default ones.
LaterDayRequested ==
    /\ IsWeatherApp
    /\ lastCall = "predict"
    /\ waFetch # None
    /\ waFetch[1].date.date > Today
    /\ waFetch[1].longitude # DefaultLng

\* Both typed texts are numbers, the latitude within [-90, 90] and the
\* longitude within [-180, 180] (1e-6 degree).
TypedPairInRange(latText, lngText) ==
    /\ latText.kind = "number"
    /\ lngText.kind = "number"
    /\ -90000000 <= latText.value /\ latText.value <= 90000000
    /\ -180000000 <= lngText.value /\ lngText.value <= 180000000

\* What typing into a coordinate field may do, the fields then holding
\* latText and lngText: with the map there, a pair in range is adopted; any
\* other pair leaves the coordinates, the marker, the map view and the
\* coordinate display alone and shows no error.
TypedPairHandled(latText, lngText) ==
    IF TypedPairInRange(latText, lngText)
    THEN map # None
         => /\ currentCoords' = Some(Point(latText.value, lngText.value))
            /\ marker' = currentCoords'
            /\ map' = currentCoords'
    ELSE /\ UNCHANGED << currentCoords, marker, map, coordDisplay >>
         /\ UNCHANGED << coordError, apiError >>

\* C18: in WeatherApp, text typed into the latitude or longitude field is
\* adopted only when both fields parse as numbers in range; otherwise the
\* current coordinates, the marker, the map view and the coordinate display
\* stay as they were and no error is shown.
TypedCoordinatesAdoptedOnlyIfValid ==
    [][ /\ \A text \in TypedLat :
              TypeLatitude(text) => TypedPairHandled(text, lngInput)
        /\ \A text \in TypedLng :
              TypeLongitude(text) => TypedPairHandled(latInput, text) ]_vars

\* C18 witness: longitude 0 was typed and adopted, then latitude 95 was
\* typed and left the coordinates where they were.
TypedLatitudeIgnored ==
    /\ IsWeatherApp
    /\ lastCall = "other"
    /\ latInput = NumberText(95000000)
    /\ lngInput = NumberText(0)
    /\ currentCoords = Some(Point(DefaultLat, 0))
    /\ marker = currentCoords

\* C20: in both dashboards the error state and the results section are
\* never visible at the same time.
ErrorAndResultsExclusive ==
    (IsOracle \/ IsDashboard) => ~(errorState.visible /\ resultsVisible)

\* C17: the service worker never answers a request that is not a GET: such
\* a fetch event (the POST to /predict) ends declined, with no respondWith,
\* so the browser sends it to the network itself; the worker answers none
\* from the cache or on its own, holds none among the events it is
\* answering, and no cache entry is for one.
WorkerLeavesNonGetAlone ==
    /\ swLast.method = "POST" => swLast.by = "declined"
    /\ \A k \in 1..Len(swEvents) : swEvents[k].request.method = "GET"
    /\ \A e \in caches : e.method = "GET"

\* C17 witness: with responses in cache 'weaza-v1', among them one stored
\* by the fetch handler, a POST to /predict has just been declined.
PredictDeclined ==
    /\ swLast.by = "declined"
    /\ swLast.method = "POST"
    /\ swLast.url = << "localhost:5000", "/predict" >>
    /\ \E e \in caches :
          e.cache = "weaza-v1" /\ e.url[2] = "data/cities/France.json"

\* C21: in EnvironmentalDashboard, with overlapping prediction requests, the
\* loading indicator is visible as long as a request is outstanding, and
\* the results on display once the last outstanding request has been
\* answered are those of the most recently issued request, not of one that
\* a later request has superseded.
LatestRequestWins ==
    /\ [](IsDashboard /\ attempts # << >> => loadingVisible)
    /\ [][ (/\ IsDashboard
             /\ lastCall' = "succeeded"
             /\ Len(attempts) = 1
             /\ attempts' = << >>)
            => ~attempts[1].superseded ]_vars

\* C22: in WeatherOracle at most one prediction request is in flight, and
\* isLoading is true exactly while an attempt that passed validation has
\* not settled; so a predict click, Enter key or Retry click made while it
\* is true sends no further request.
OneOracleRequestAtATime ==
    IsOracle
    => /\ Len(attempts) <= 1
       /\ isLoading <=> attempts # << >>

\* C22 witness: the response of the attempt has arrived and its delay is
\* running, and the Enter key or Retry has just called predictEnvironment:
\* the attempt is still the only one.
TriggerIgnoredWhileLoading ==
    /\ IsOracle
    /\ isLoading
    /\ lastCall \in { "predict", "retry" }
    /\ Len(attempts) = 1
    /\ attempts[1].phase = "delay"

\* C23: in WeatherApp a geocoding response that arrives after a later
\* location action of the user does not overwrite that choice: when the
\* last thing that ran was a map click or marker drag and a geocoding
\* request sent before it settles now, the current coordinates and the
\* marker stay where the user put them.
LaterChoiceKept ==
    [][ (/\ IsWeatherApp
         /\ lastCall = "located"
         /\ Len(geocodes') < Len(geocodes))
        => /\ currentCoords' = currentCoords
           /\ marker' = marker ]_vars

\* The entries cache 'weaza-v1' holds for the URL of a request.
HeldFor(store, request) ==
    { e \in store : /\ e.cache = "weaza-v1"
                    /\ e.url = << request.host, request.path >> }

\* C24: in the activated service worker, (1) when the put that follows a
\* GET answered from the network completes, cache 'weaza-v1' holds that
\* response for the request, whatever its status; (2) a GET whose request
\* has an entry in the cache when it is looked up is answered with the
\* response of that entry and no network fetch is made for it; (3) nothing
\* removes the entry of a request from the cache.
CachedGetStaysCached ==
    [][ /\ \A i \in 1..Len(swEvents) :
              WorkerCachePut(i)
              => \E e \in HeldFor(caches', swEvents[i].request) :
                    e.response = swEvents[i].response[1]
        /\ \A i \in 1..Len(swEvents) :
              (WorkerCacheMatched(i) /\ HeldFor(caches, swEvents[i].request) # {})
              => /\ swLast'.by = "cache"
                 /\ swLast'.url = << swEvents[i].request.host,
                                     swEvents[i].request.path >>
                 /\ \E e \in HeldFor(caches, swEvents[i].request) :
                       swLast'.response = Some(e.response)
                 /\ Len(swEvents') = Len(swEvents) - 1
        /\ swState = "activated"
           => \A e \in caches :
                 e.cache = "weaza-v1"
                 => \E f \in caches' : f.cache = e.cache /\ f.url = e.url
      ]_vars

\* C24 witness: the cities file, which is no precached asset, was answered
\* from the network with status 404 and stored, and a GET for it has just
\* been answered from the cache with that response.
NotFoundServedFromCache ==
    /\ swLast.by = "cache"
    /\ swLast.url = << "page-origin", "data/cities/France.json" >>
    /\ swLast.response = Some([status |-> 404, body |-> "first"])

\* C25: in WeatherApp a message shown by showApiError or
\* showCoordinateError is hidden by a timer only when that timer is its own:
\* a timer that fires while a timer started later for the same element is
\* still pending belongs to an earlier message, and it does not hide the
\* message on display.
OwnTimerHidesMessage ==
    [][ /\ (/\ ~apiError.hidden
             /\ apiError'.hidden
             /\ apiError'.timers < apiError.timers)
            => apiError.timers = 1
        /\ (/\ ~coordError.hidden
             /\ coordError'.hidden
             /\ coordError'.timers < coordError.timers)
            => coordError.timers = 1 ]_vars

\* C26: rendering does not modify the response it renders.  In
\* WeatherOracle currentData holds the response from its arrival on; when
\* displayResults has run at the end of the delay, currentData, and with it
\* the order and contents of its confidence list, is what it was.
RenderingKeepsResponse ==
    [][ (IsOracle /\ lastCall' = "succeeded") => currentData' = currentData ]_vars

\* C27: search and category filtering only ever hide variable rows: while
\* the variables table is on the page its header row is visible, whatever
\* the search term and the category chosen.
HeaderRowStaysVisible ==
    rendered # None => IsVisible(TableRows[1])

====
